---- MODULE Spec2Model ----
(***************************************************************************)
(* A model of qc.rs (QuickCheck for Rust): the lazy sequence of lazy.rs    *)
(* and the drivers quick_check, quick_shrink and quick_check_occurs of     *)
(* qc.rs.                                                                  *)
(*                                                                         *)
(* An Option<T> is a sequence of length at most one: <<>> is None and      *)
(* <<x>> is Some(x).                                                       *)
(***************************************************************************)
EXTENDS Integers, Sequences, FiniteSets, TLC

VARIABLES
    mode,       \* which public entry point this run exercises
    L,          \* lazy.rs: the Lazy under test (head, thunks; log is history)
    fresh,      \* number of elements created so far (elements are distinct)
    used,       \* number of push / push_thunk / push_map calls written so far
    last,       \* results of the calls of L.next(), oldest first
    cfg,        \* qc.rs: the QConfig given to the driver
    prop,       \* the property: value of type A -> bool, as far as it was called
    shrinkTab,  \* Shrink for uint: number -> its candidates
    pc,         \* the driver's position
    i,          \* the trial index of the for loop
    n,          \* quick_check_occurs: its counter n
    value,      \* the generated value (moved into prop)
    v_copy,     \* quick_check: the clone kept for shrinking
    sz,         \* the size given to arbitrary() by the current trial
    arg,        \* the value a call of quick_shrink is entered with
    stack,      \* quick_shrink: its activation records, innermost last
    result,     \* Option: the value quick_shrink returned
    failure,    \* Option: what fail!() was called with
    gens,       \* history: number of calls of arbitrary()
    evals,      \* history: what the calls of prop returned, oldest first
    tested,     \* history: Option, the value the latest trial gave to prop
    built,      \* history: the calls the client of L built it with, oldest first
    static_config, \* qc.rs: the static config
    bcall       \* history: Option, the latest call of a builder of QConfig

vars == <<mode, L, fresh, used, last, cfg, prop, shrinkTab, pc, i, n, value, v_copy,
          sz, arg, stack, result, failure, gens, evals, tested, built,
          static_config, bcall>>

builderVars == <<static_config, bcall>>

lazyVars == <<L, fresh, used, last, built>>
driverVars == <<cfg, prop, shrinkTab, pc, i, n, value, v_copy, sz, arg, stack,
                result, failure, gens, evals, tested>>

(***************************************************************************)
(* Bounds of the model.                                                    *)
(***************************************************************************)
\* The client of the Lazy and the functions of the thunks it installs make
\* at most this many calls of push, push_thunk and push_map altogether (an
\* element of the iterator given to push_map counts as one call).
MaxCalls == 5

\* The numbers under SmallN are 0..MaxVal.
MaxVal == 2

\* The configurations tried have trials in 0..MaxTrials.
MaxTrials == 9

SeqsUpTo(S, k) == UNION {[1..m -> S] : m \in 0..k}

(***************************************************************************)
(* lazy.rs                                                                 *)
(***************************************************************************)

\* An event of the history of a Lazy.  e is "push" (x is the element),
\* "inst" (a thunk was queued, x is its number), "call" / "end" (the thunk
\* numbered x was invoked / its invocation returned), "pull" (a push_map
\* thunk called it.next() and got the Option x) or "ret" (next() handed out
\* x).
Event(e, x) == [e |-> e, x |-> x]

\* Lazy::new_from
new_from(v) == [head |-> v, thunks |-> <<>>, log |-> <<>>]

\* Lazy::new
new == new_from(<<>>)

\* Number of thunks queued on l so far; the next one gets the next number.
Installed(l) == Cardinality({p \in DOMAIN l.log : l.log[p].e = "inst"})

\* push with the element put in front of head instead of behind it
push_front(l, x) ==
    [l EXCEPT !.head = <<x>> \o @, !.log = Append(@, Event("push", x))]

\* Lazy::push
push(l, x) ==
    [l EXCEPT !.head = Append(@, x), !.log = Append(@, Event("push", x))]

\* A thunk is the captured value with the function to run on it.  kind "ops":
\* the function makes the calls listed in ops on the Lazy it is given.  kind
\* "map": the thunk of push_map, holding the iterator it and the function f.
Thunk(kind, id, ops, it, f) ==
    [kind |-> kind, id |-> id, ops |-> ops, it |-> it, f |-> f]

\* Lazy::push_thunk with a function that performs ops
push_thunk(l, ops) ==
    LET id == Installed(l) + 1
    IN  [l EXCEPT !.thunks = Append(@, Thunk("ops", id, ops, new, "")),
                  !.log = Append(@, Event("inst", id))]

\* The functions given to push_map: |x| (x, 1) of test_lazy_list, |x| (x, 2),
\* |x| SmallN(x) of Shrink for SmallN, and |(a, b, c)| Node(a, b, c) of
\* Shrink for UserTree.
SmallN(x) == [n |-> x]

\* enum UserTree<T> { Nil, Node(T, ~UserTree<T>, ~UserTree<T>) }
Nil == [nil |-> TRUE]
Node(x, l, r) == [x |-> x, l |-> l, r |-> r]

apply(f, x) ==
    CASE f = "pair1" -> <<x, 1>>
      [] f = "pair2" -> <<x, 2>>
      [] f = "SmallN" -> SmallN(x)
      [] f = "Node" -> Node(x[1], x[2], x[3])

\* the thunk put in front of the pending ones instead of behind them
push_map_front(l, it, f) ==
    LET id == Installed(l) + 1
    IN  [l EXCEPT !.thunks = <<Thunk("map", id, <<>>, it, f)>> \o @,
                  !.log = Append(@, Event("inst", id))]

\* Lazy::push_map: queues the thunk that holds (f, it)
push_map(l, it, f) ==
    LET id == Installed(l) + 1
    IN  [l EXCEPT !.thunks = Append(@, Thunk("map", id, <<>>, it, f)),
                  !.log = Append(@, Event("inst", id))]

\* One call made by a thunk's function: push(v) or push_thunk of a thunk
\* whose function makes the calls of body.
PushOp(v) == [op |-> "push", v |-> v, body |-> <<>>]
ThunkOp(body) == [op |-> "push_thunk", v |-> <<>>, body |-> body]

RECURSIVE run(_, _)
RECURSIVE call(_, _)
RECURSIVE loop(_)

\* The body of a thunk's function: its calls on the Lazy, in order.
run(ops, l) ==
    IF ops = <<>> THEN l
    ELSE LET o == Head(ops)
         IN  run(Tail(ops),
                 IF o.op = "push" THEN push(l, o.v) ELSE push_thunk(l, o.body))

\* the loop with the thunk left in thunks while it is called, and taken out
\* afterwards only if head is still empty
loop_keep(l) ==
    IF Len(l.head) = 0 /\ Len(l.thunks) > 0
    THEN LET t == Head(l.thunks)
             l1 == [l EXCEPT !.log = Append(@, Event("call", t.id))]
             l2 == call(t, l1)
             l3 == [l2 EXCEPT !.log = Append(@, Event("end", t.id))]
         IN  IF Len(l3.head) = 0 THEN loop([l3 EXCEPT !.thunks = Tail(@)]) ELSE l3
    ELSE l

\* the loop calling thunks as long as one is left, whatever head holds
loop_eager(l) ==
    IF Len(l.thunks) > 0
    THEN LET t == Head(l.thunks)
             l1 == [l EXCEPT !.thunks = Tail(@),
                             !.log = Append(@, Event("call", t.id))]
             l2 == call(t, l1)
         IN  loop([l2 EXCEPT !.log = Append(@, Event("end", t.id))])
    ELSE l

\* The while loop of Lazy::next: it shifts the oldest thunk out of thunks
\* and calls it, as long as head is empty and a thunk is left.
loop(l) ==
    IF Len(l.head) = 0 /\ Len(l.thunks) > 0
    THEN LET t == Head(l.thunks)
             l1 == [l EXCEPT !.thunks = Tail(@),
                             !.log = Append(@, Event("call", t.id))]
             l2 == call(t, l1)
         IN  loop([l2 EXCEPT !.log = Append(@, Event("end", t.id))])
    ELSE l

\* next handing out the oldest element of head and leaving it there
next_keep(l) ==
    LET l1 == loop(l)
    IN  IF Len(l1.head) > 0
        THEN [lazy |-> [l1 EXCEPT !.log = Append(@, Event("ret", Head(l1.head)))],
              res |-> <<Head(l1.head)>>]
        ELSE [lazy |-> l1, res |-> <<>>]

\* next handing out the newest element of head instead of the oldest
next_last(l) ==
    LET l1 == loop(l)
        k == Len(l1.head)
    IN  IF k > 0
        THEN [lazy |-> [l1 EXCEPT !.head = SubSeq(@, 1, k - 1),
                                  !.log = Append(@, Event("ret", l1.head[k]))],
              res |-> <<l1.head[k]>>]
        ELSE [lazy |-> l1, res |-> <<>>]

\* Lazy::next: the Lazy afterwards and the Option returned
next(l) ==
    LET l1 == loop(l)
    IN  IF Len(l1.head) > 0
        THEN [lazy |-> [l1 EXCEPT !.head = Tail(@),
                                  !.log = Append(@, Event("ret", Head(l1.head)))],
              res |-> <<Head(l1.head)>>]
        ELSE [lazy |-> l1, res |-> <<>>]

\* call with a push_map thunk that pushes f(x) and forgets the rest of it
call_once(t, l) ==
    IF t.kind = "ops" THEN run(t.ops, l)
    ELSE LET r == next(t.it)
             l1 == [l EXCEPT !.log = Append(@, Event("pull", r.res))]
         IN  IF r.res = <<>> THEN l1 ELSE push(l1, apply(t.f, r.res[1]))

\* Callable::call for Thunk: runs the function on the captured value
call(t, l) ==
    IF t.kind = "ops" THEN run(t.ops, l)
    ELSE LET r == next(t.it)
             l1 == [l EXCEPT !.log = Append(@, Event("pull", r.res))]
         IN  IF r.res = <<>> THEN l1
             ELSE push_map(push(l1, apply(t.f, r.res[1])), r.lazy, t.f)

(***************************************************************************)
(* qc.rs                                                                   *)
(***************************************************************************)

\* pub static config
config == [trials |-> 50, size |-> 8, verbose |-> FALSE, grow |-> TRUE]

\* size with the other fields taken from the static config: QConfig{size: x, ..config}
size_from_static(self, x) == [config EXCEPT !.size = x]

\* QConfig::size, ::trials, ::grow, ::verbose
size(self, x) == [self EXCEPT !.size = x]
trials(self, x) == [self EXCEPT !.trials = x]
grow(self, x) == [self EXCEPT !.grow = x]
verbose(self, x) == [self EXCEPT !.verbose = x]

\* The type A the drivers are used at is SmallN.
Value == {SmallN(x) : x \in 0..MaxVal}

\* arbitrary::<A>(sz) draws at random: any value of the type may come back.
arbitrary(s) == Value

\* Clone::clone
clone(v) == v

\* the size growing with the number 1+i of the trial instead of its index i
trial_size_by_number(c, k) == c.size + (IF c.grow THEN (1 + k) \div 8 ELSE 0)

\* The size factor of trial i: cfg.size + if cfg.grow { i / 8 } else { 0 }
trial_size(c, k) == c.size + (IF c.grow THEN k \div 8 ELSE 0)

\* a range that includes its upper end
in_range_inclusive(k, c) == k <= c.trials

\* for std::uint::range(0, cfg.trials) |i|: is there a turn for index k?
in_range(k, c) == k < c.trials

\* the report with the index of the trial instead of the number of trials
falsified_index(k, shrunk) == [msg |-> "falsified", trials |-> k, value |-> shrunk]

\* The argument of fail!() in quick_check
falsified(k, shrunk) == [msg |-> "falsified", trials |-> 1 + k, value |-> shrunk]

\* the test with > for >=
not_reproduced_strict(k, c) == k > c.trials

\* The test after the loop of quick_check_occurs
not_reproduced(k, c) == k >= c.trials

\* The argument of fail!() in quick_check_occurs
could_not_reproduce == [msg |-> "could not to reproduce", trials |-> 0, value |-> <<>>]

\* The candidate lists Shrink for uint may give for x: finitely many numbers
\* below x, none of them twice.
Candidates(x) ==
    {c \in SeqsUpTo(0..(x - 1), x) : \A p, q \in DOMAIN c : p # q => c[p] # c[q]}

\* Shrink for uint, as the Lazy of the candidates in cs
uint_shrink(cs) == new_from(cs)

\* The function given to Lazy::create by Shrink for SmallN
shrink_body(cs, l) == push_map(l, uint_shrink(cs), "SmallN")

\* Shrink for SmallN, the candidates of the number under it being cs:
\* Lazy::create runs the function on Lazy::new() and returns that Lazy
shrink(cs) == shrink_body(cs, new)

\* A vector ~[uint] as a value of the type A of quick_shrink.
Vec(s) == [v |-> s]
IsVec(x) == "v" \in DOMAIN x

\* The vectors quick_shrink is called with: up to MaxVal numbers, each 0 or 1.
Vecs == {Vec(s) : s \in SeqsUpTo(0..1, MaxVal)}

\* s without its j-th element
DropAt(s, j) == SubSeq(s, 1, j - 1) \o SubSeq(s, j + 1, Len(s))

RECURSIVE ShrunkFrom(_, _)
\* The vectors that differ from s in one element, at position j or behind it,
\* which is replaced by a smaller number: the earlier position first, and
\* for one position the smaller number first.
ShrunkFrom(s, j) ==
    IF j > Len(s) THEN <<>>
    ELSE [x \in 1..s[j] |-> Vec([s EXCEPT ![j] = x - 1])] \o ShrunkFrom(s, j + 1)

\* The candidates of Shrink for a vector: none for the empty one; else the
\* empty vector first, then s with one element removed, then s with one
\* element shrunk.
vec_candidates(s) ==
    IF s = <<>> THEN <<>>
    ELSE <<Vec(<<>>)>>
         \o (IF Len(s) > 1 THEN [j \in 1..Len(s) |-> Vec(DropAt(s, j))] ELSE <<>>)
         \o ShrunkFrom(s, 1)

\* Shrink for ~[T], as the Lazy of the candidates
vec_shrink(x) == new_from(vec_candidates(x.v))

\* Shrink for the tuple (x, l, r), as the Lazy of its candidates cs
tuple_shrink(cs) == new_from(cs)

\* the match left out: Nil and the mapped candidates pushed for every tree
tree_shrink_body_unmatched(t, cs, l) == push_map(push(l, Nil), tuple_shrink(cs), "Node")

\* The function given to Lazy::create by Shrink for UserTree; cs are the
\* candidates of the tuple (x, l, r) of a Node
tree_shrink_body(t, cs, l) ==
    IF t = Nil THEN l
    ELSE push_map(push(l, Nil), tuple_shrink(cs), "Node")

\* Shrink for UserTree: Lazy::create runs the function on Lazy::new()
tree_shrink(t, cs) == tree_shrink_body(t, cs, new)

\* prop(v) returns b: a property is a function of its argument, so a value
\* it was called with before gets the same answer again.
PropReturns(v, b) ==
    /\ v \in DOMAIN prop => prop[v] = b
    /\ prop' = (v :> b) @@ prop
    /\ evals' = Append(evals, b)

\* (*self).shrink() gives the candidates cs, the same ones at every call.
ShrinkGives(x, cs) ==
    /\ cs \in Candidates(x)
    /\ x \in DOMAIN shrinkTab => shrinkTab[x] = cs
    /\ shrinkTab' = (x :> cs) @@ shrinkTab

\* An activation record of quick_shrink.  seen is history: the candidates
\* this activation took from shrinks, oldest first.
Frame(v, l) == [value |-> v, shrinks |-> l, seen |-> <<>>]

\* quick_check: the head of the for loop, arbitrary() and clone()
QcTrial ==
    /\ mode = "quick_check"
    /\ pc = "qc_for"
    /\ in_range(i, cfg)
    /\ sz' = trial_size(cfg, i)
    /\ \E v \in arbitrary(sz') :
          /\ value' = <<v>>
          /\ v_copy' = <<clone(v)>>
    /\ gens' = gens + 1
    /\ pc' = "qc_prop"
    /\ UNCHANGED <<mode, cfg, prop, shrinkTab, i, n, arg, stack, result, failure,
                   evals, tested>>
    /\ UNCHANGED lazyVars
    /\ UNCHANGED builderVars

\* QcProp without the negation: if prop(value)
QcProp_inverted ==
    /\ mode = "quick_check"
    /\ pc = "qc_prop"
    /\ \E b \in BOOLEAN :
          /\ PropReturns(value[1], b)
          /\ IF ~b
             THEN /\ i' = i + 1
                  /\ pc' = "qc_for"
                  /\ UNCHANGED <<v_copy, arg>>
             ELSE /\ arg' = v_copy
                  /\ v_copy' = <<>>
                  /\ pc' = "qs_enter"
                  /\ i' = i
    /\ value' = <<>>
    /\ tested' = value
    /\ UNCHANGED <<mode, cfg, shrinkTab, n, sz, stack, result, failure, gens>>
    /\ UNCHANGED lazyVars
    /\ UNCHANGED builderVars

\* quick_check: if !prop(value); on false it calls quick_shrink(cfg, v_copy, prop)
QcProp ==
    /\ mode = "quick_check"
    /\ pc = "qc_prop"
    /\ \E b \in BOOLEAN :
          /\ PropReturns(value[1], b)
          /\ IF b
             THEN /\ i' = i + 1
                  /\ pc' = "qc_for"
                  /\ UNCHANGED <<v_copy, arg>>
             ELSE /\ arg' = v_copy
                  /\ v_copy' = <<>>
                  /\ pc' = "qs_enter"
                  /\ i' = i
    /\ value' = <<>>
    /\ tested' = value
    /\ UNCHANGED <<mode, cfg, shrinkTab, n, sz, stack, result, failure, gens>>
    /\ UNCHANGED lazyVars
    /\ UNCHANGED builderVars

\* quick_check: the for loop is over, the test passes
QcPassed ==
    /\ mode = "quick_check"
    /\ pc = "qc_for"
    /\ ~in_range(i, cfg)
    /\ pc' = "passed"
    /\ UNCHANGED <<mode, cfg, prop, shrinkTab, i, n, value, v_copy, sz, arg, stack,
                   result, failure, gens, evals, tested>>
    /\ UNCHANGED lazyVars
    /\ UNCHANGED builderVars

\* the falsification reported without ending the run: the loop goes on
QcFail_resume ==
    /\ mode = "quick_check"
    /\ pc = "qs_done"
    /\ failure' = <<falsified(i, result[1])>>
    /\ pc' = "qc_for"
    /\ i' = i + 1
    /\ UNCHANGED <<mode, cfg, prop, shrinkTab, n, value, v_copy, sz, arg, stack,
                   result, gens, evals, tested>>
    /\ UNCHANGED lazyVars
    /\ UNCHANGED builderVars

\* quick_check: fail!() with 1+i and the value quick_shrink returned
QcFail ==
    /\ mode = "quick_check"
    /\ pc = "qs_done"
    /\ failure' = <<falsified(i, result[1])>>
    /\ pc' = "failed"
    /\ UNCHANGED <<mode, cfg, prop, shrinkTab, i, n, value, v_copy, sz, arg, stack,
                   result, gens, evals, tested>>
    /\ UNCHANGED lazyVars
    /\ UNCHANGED builderVars

\* quick_shrink: let mut shrinks = value.shrink()
QsEnter ==
    /\ mode \in {"quick_check", "quick_shrink"}
    /\ pc = "qs_enter"
    /\ IF IsVec(arg[1])
       THEN /\ stack' = Append(stack, Frame(arg[1], vec_shrink(arg[1])))
            /\ shrinkTab' = shrinkTab
       ELSE \E cs \in Candidates(arg[1].n) :
               /\ ShrinkGives(arg[1].n, cs)
               /\ stack' = Append(stack, Frame(arg[1], shrink(cs)))
    /\ arg' = <<>>
    /\ pc' = "qs_for"
    /\ UNCHANGED <<mode, cfg, prop, i, n, value, v_copy, sz, result, failure, gens,
                   evals, tested>>
    /\ UNCHANGED lazyVars
    /\ UNCHANGED builderVars

\* the candidate returned as it is, not shrunk further
qs_falsified_return(elt_cpy) ==
    /\ result' = <<elt_cpy>>
    /\ pc' = "qs_return"
    /\ arg' = arg

\* the falsifying candidate passed over: the loop goes on with the next one
qs_falsified_skip(elt_cpy) ==
    /\ pc' = "qs_for"
    /\ arg' = arg
    /\ result' = result

\* quick_shrink: return quick_shrink(cfg, elt_cpy, prop)
qs_falsified(elt_cpy) ==
    /\ arg' = <<elt_cpy>>
    /\ pc' = "qs_enter"
    /\ result' = result

\* quick_shrink: one turn of the for loop over shrinks: next(), clone(),
\* prop(elt), and on false the call quick_shrink(cfg, elt_cpy, prop); when
\* next() gives None the loop is over and value is returned.  (d, r, elt and
\* elt_cpy are the locals of this turn, each bound to its one value.)
QsStep ==
    /\ mode \in {"quick_check", "quick_shrink"}
    /\ pc = "qs_for"
    /\ \E d \in {Len(stack)} : \E r \in {next(stack[d].shrinks)} :
          IF r.res = <<>>
          THEN /\ stack' = [stack EXCEPT ![d].shrinks = r.lazy]
               /\ result' = <<stack[d].value>>
               /\ pc' = "qs_return"
               /\ UNCHANGED <<prop, evals, arg>>
          ELSE \E elt \in {r.res[1]} : \E elt_cpy \in {clone(elt)} :
                  /\ stack' = [stack EXCEPT ![d].shrinks = r.lazy,
                                            ![d].seen = Append(@, elt)]
                  /\ \E b \in BOOLEAN :
                        /\ PropReturns(elt, b)
                        /\ IF b
                           THEN /\ pc' = "qs_for"
                                /\ UNCHANGED <<arg, result>>
                           ELSE qs_falsified(elt_cpy)
    /\ UNCHANGED <<mode, cfg, shrinkTab, i, n, value, v_copy, sz, failure, gens,
                   tested>>
    /\ UNCHANGED lazyVars
    /\ UNCHANGED builderVars

\* an activation that never returns
QsReturn_hang ==
    /\ mode \in {"quick_check", "quick_shrink"}
    /\ pc = "qs_return"
    /\ UNCHANGED vars

\* quick_shrink: an activation returns, to the activation that called it (which
\* returns what it got) or to the caller of the outermost one
QsReturn ==
    /\ mode \in {"quick_check", "quick_shrink"}
    /\ pc = "qs_return"
    /\ stack' = SubSeq(stack, 1, Len(stack) - 1)
    /\ pc' = IF Len(stack) > 1 THEN "qs_return" ELSE "qs_done"
    /\ UNCHANGED <<mode, cfg, prop, shrinkTab, i, n, value, v_copy, sz, arg, result,
                   failure, gens, evals, tested>>
    /\ UNCHANGED lazyVars
    /\ UNCHANGED builderVars

\* quick_check_occurs: the head of the for loop, n += 1 and arbitrary()
OcTrial ==
    /\ mode = "quick_check_occurs"
    /\ pc = "oc_for"
    /\ in_range(i, cfg)
    /\ n' = n + 1
    /\ sz' = trial_size(cfg, i)
    /\ \E v \in arbitrary(sz') : value' = <<v>>
    /\ gens' = gens + 1
    /\ pc' = "oc_prop"
    /\ UNCHANGED <<mode, cfg, prop, shrinkTab, i, v_copy, arg, stack, result, failure,
                   evals, tested>>
    /\ UNCHANGED lazyVars
    /\ UNCHANGED builderVars

\* the loop going on after the property held
oc_occurred_continue ==
    /\ pc' = "oc_for"
    /\ i' = i + 1

\* quick_check_occurs: prop(value) held: break
oc_occurred ==
    /\ pc' = "oc_if"
    /\ i' = i

\* quick_check_occurs: if prop(value) { break }
OcProp ==
    /\ mode = "quick_check_occurs"
    /\ pc = "oc_prop"
    /\ \E b \in BOOLEAN :
          /\ PropReturns(value[1], b)
          /\ IF b
             THEN oc_occurred
             ELSE /\ pc' = "oc_for"
                  /\ i' = i + 1
    /\ value' = <<>>
    /\ tested' = value
    /\ UNCHANGED <<mode, cfg, shrinkTab, n, v_copy, sz, arg, stack, result, failure,
                   gens>>
    /\ UNCHANGED lazyVars
    /\ UNCHANGED builderVars

\* quick_check_occurs: the for loop runs out of trials
OcExhausted ==
    /\ mode = "quick_check_occurs"
    /\ pc = "oc_for"
    /\ ~in_range(i, cfg)
    /\ pc' = "oc_if"
    /\ UNCHANGED <<mode, cfg, prop, shrinkTab, i, n, value, v_copy, sz, arg, stack,
                   result, failure, gens, evals, tested>>
    /\ UNCHANGED lazyVars
    /\ UNCHANGED builderVars

\* quick_check_occurs: if n >= cfg.trials { fail!() }
OcIf ==
    /\ mode = "quick_check_occurs"
    /\ pc = "oc_if"
    /\ IF not_reproduced(n, cfg)
       THEN /\ failure' = <<could_not_reproduce>>
            /\ pc' = "failed"
       ELSE /\ failure' = failure
            /\ pc' = "passed"
    /\ UNCHANGED <<mode, cfg, prop, shrinkTab, i, n, value, v_copy, sz, arg, stack,
                   result, gens, evals, tested>>
    /\ UNCHANGED lazyVars
    /\ UNCHANGED builderVars

\* The configurations the drivers are called with: the default one, changed in
\* any of its fields (the size factor either the default or 0).
Configs ==
    {trials(size(grow(verbose(config, vb), g), s), t) :
        vb \in BOOLEAN, g \in BOOLEAN, s \in {config.size, 0}, t \in 0..MaxTrials}

InitDriver(m, start) ==
    /\ mode = m
    /\ cfg \in Configs
    /\ prop = <<>>
    /\ shrinkTab = <<>>
    /\ pc = start
    /\ i = 0
    /\ n = 0
    /\ value = <<>>
    /\ v_copy = <<>>
    /\ sz = 0
    /\ stack = <<>>
    /\ result = <<>>
    /\ failure = <<>>
    /\ gens = 0
    /\ evals = <<>>
    /\ tested = <<>>
    /\ L = new
    /\ fresh = 0
    /\ used = 0
    /\ last = <<>>
    /\ built = <<>>
    /\ static_config = config
    /\ bcall = <<>>

\* quick_check(name, cfg, prop)
InitQc == InitDriver("quick_check", "qc_for") /\ arg = <<>>

\* quick_check_occurs(cfg, name, prop)
InitOc == InitDriver("quick_check_occurs", "oc_for") /\ arg = <<>>

\* quick_shrink(cfg, value, prop)
InitQs ==
    /\ InitDriver("quick_shrink", "qs_enter")
    /\ \/ \E v \in Value : arg = <<v>>
       \/ \E v \in Vecs : arg = <<v>> /\ cfg = trials(config, MaxTrials)

(***************************************************************************)
(* The Lazy under test: a client that builds it with push, push_thunk and  *)
(* push_map and consumes it with next.                                     *)
(***************************************************************************)

\* The k-th element created in a run; elements are distinct, so that the
\* order in which next() hands them out can be observed.
Atom(k) == <<k>>

\* The functions a thunk may carry, by the number k of calls of push and
\* push_thunk they contain, those of the functions of the thunks they
\* install included (test_lazy_list has one of 4 calls).
Shapes[k \in 0..MaxCalls] ==
    IF k = 0 THEN {<<>>}
    ELSE UNION {
           {<<o>> \o rest :
                o \in (IF j = 1 THEN {PushOp(<<>>)} ELSE {})
                       \cup {ThunkOp(b) : b \in Shapes[j - 1]},
                rest \in Shapes[k - j]}
           : j \in 1..k}

RECURSIVE Pushes(_)
\* Number of elements a function of this shape pushes, nested thunks included.
Pushes(shape) ==
    IF shape = <<>> THEN 0
    ELSE (IF Head(shape).op = "push" THEN 1 ELSE Pushes(Head(shape).body))
         + Pushes(Tail(shape))

RECURSIVE Stamp(_, _)
\* The function of this shape with the elements Atom(base+1), Atom(base+2),
\* ... as the values it pushes, in the order of the text.
Stamp(shape, base) ==
    IF shape = <<>> THEN <<>>
    ELSE LET o == Head(shape)
         IN  IF o.op = "push"
             THEN <<PushOp(Atom(base + 1))>> \o Stamp(Tail(shape), base + 1)
             ELSE <<ThunkOp(Stamp(o.body, base))>>
                  \o Stamp(Tail(shape), base + Pushes(o.body))

\* The iterators given to push_map: a Lazy made by new_from, or such a Lazy
\* behind a push_map of its own.

Source(k, g) ==
    LET vs == [j \in 1..k |-> Atom(fresh + j)]
    IN  IF g = "" THEN new_from(vs) ELSE push_map(new, new_from(vs), g)

\* The push_map calls of the client: f is given to push_map, and g, if any,
\* to the push_map the iterator is made with.
Maps == {[g |-> "", f |-> "pair1"], [g |-> "", f |-> "pair2"],
         [g |-> "pair2", f |-> "pair1"]}

InitDriverIdle ==
    /\ cfg = [trials |-> 0, size |-> 0, verbose |-> FALSE, grow |-> FALSE]
    /\ prop = <<>>
    /\ shrinkTab = <<>>
    /\ pc = "idle"
    /\ i = 0
    /\ n = 0
    /\ value = <<>>
    /\ v_copy = <<>>
    /\ sz = 0
    /\ arg = <<>>
    /\ stack = <<>>
    /\ result = <<>>
    /\ failure = <<>>
    /\ gens = 0
    /\ evals = <<>>
    /\ tested = <<>>

\* A call of the client that built L: it brought k new elements, Atom(m+1)
\* to Atom(m+k) if m elements existed before; for push_map they are the
\* elements of the iterator, mapped by g before push_map maps them by f.
Built(what, k, g, f) == [what |-> what, k |-> k, g |-> g, f |-> f]

InitLazy ==
    /\ mode = "lazy"
    /\ L = new
    /\ fresh = 0
    /\ used = 0
    /\ last = <<>>
    /\ built = <<>>
    /\ InitDriverIdle
    /\ static_config = config
    /\ bcall = <<>>

\* client: L.push(x)
LzPush ==
    /\ mode = "lazy"
    /\ used < MaxCalls
    /\ L' = push(L, Atom(fresh + 1))
    /\ fresh' = fresh + 1
    /\ used' = used + 1
    /\ built' = Append(built, Built("push", 1, "", ""))
    /\ UNCHANGED <<mode, last>>
    /\ UNCHANGED driverVars
    /\ UNCHANGED builderVars

\* client: L.push_thunk(v, f), while it builds the Lazy
LzPushThunk ==
    /\ mode = "lazy"
    /\ last = <<>>
    /\ \E k \in 0..(MaxCalls - used - 1) : \E shape \in Shapes[k] :
          /\ L' = push_thunk(L, Stamp(shape, fresh))
          /\ fresh' = fresh + Pushes(shape)
          /\ used' = used + 1 + k
          /\ built' = Append(built, Built("push_thunk", Pushes(shape), "", ""))
    /\ UNCHANGED <<mode, last>>
    /\ UNCHANGED driverVars
    /\ UNCHANGED builderVars

\* client: L.push_map(it, f), while it builds the Lazy
LzPushMap ==
    /\ mode = "lazy"
    /\ last = <<>>
    /\ \E k \in 0..(MaxCalls - used - 1), m \in Maps :
          /\ L' = push_map(L, Source(k, m.g), m.f)
          /\ fresh' = fresh + k
          /\ used' = used + 1 + k
          /\ built' = Append(built, Built("push_map", k, m.g, m.f))
    /\ UNCHANGED <<mode, last>>
    /\ UNCHANGED driverVars
    /\ UNCHANGED builderVars

\* client: L.next(); the client stops calling once it has seen None twice
\* more often than there are elements
LzNext ==
    /\ mode \in {"lazy", "tree"}
    /\ Len(last) < fresh + 2
    /\ L' = next(L).lazy
    /\ last' = Append(last, next(L).res)
    /\ UNCHANGED <<mode, fresh, used, built>>
    /\ UNCHANGED driverVars
    /\ UNCHANGED builderVars

(***************************************************************************)
(* The builders of QConfig: a caller that starts from the static config    *)
(* and calls builders in a chain, as in config.verbose(true).trials(500).  *)
(***************************************************************************)

Builders == {"size", "trials", "grow", "verbose"}

\* The arguments the builders are called with.
BuilderArgs(b) ==
    CASE b = "size" -> {config.size, 0}
      [] b = "trials" -> 0..MaxTrials
      [] b = "grow" -> BOOLEAN
      [] b = "verbose" -> BOOLEAN

\* self.b(x)
build(b, self, x) ==
    CASE b = "size" -> size(self, x)
      [] b = "trials" -> trials(self, x)
      [] b = "grow" -> grow(self, x)
      [] b = "verbose" -> verbose(self, x)

InitBuilder ==
    /\ mode = "config"
    /\ static_config = config
    /\ cfg = static_config
    /\ bcall = <<>>
    /\ prop = <<>>
    /\ shrinkTab = <<>>
    /\ pc = "idle"
    /\ i = 0
    /\ n = 0
    /\ value = <<>>
    /\ v_copy = <<>>
    /\ sz = 0
    /\ arg = <<>>
    /\ stack = <<>>
    /\ result = <<>>
    /\ failure = <<>>
    /\ gens = 0
    /\ evals = <<>>
    /\ tested = <<>>
    /\ L = new
    /\ fresh = 0
    /\ used = 0
    /\ last = <<>>
    /\ built = <<>>

\* The caller calls a builder on the configuration it has: self is taken by
\* value, and the configuration returned is the one the caller goes on with.
CfCall ==
    /\ mode = "config"
    /\ \E b \in Builders : \E x \in BuilderArgs(b) :
          /\ cfg' = build(b, cfg, x)
          /\ bcall' = <<[name |-> b, x |-> x, self |-> cfg]>>
    /\ UNCHANGED <<static_config, mode, prop, shrinkTab, pc, i, n, value, v_copy, sz,
                   arg, stack, result, failure, gens, evals, tested>>
    /\ UNCHANGED lazyVars

(***************************************************************************)
(* Shrink for UserTree: a client that calls shrink() on a tree and         *)
(* consumes the Lazy it gets with next.                                    *)
(***************************************************************************)

\* The trees under a Node, and the tuples (a, b, c) the shrink sequence of
\* the tuple of a Node may hold.
Subtrees == {Nil, Node(0, Nil, Nil)}
Tuples == {<<a, b, c>> : a \in 0..1, b \in Subtrees, c \in Subtrees}

\* The call t.shrink() the client made, cs being the shrink sequence of the
\* tuple of t.
Shrank(t, cs) == [what |-> "shrink", tree |-> t, cands |-> cs]

InitTree ==
    /\ mode = "tree"
    /\ \E t \in {Nil} \cup {Node(u[1], u[2], u[3]) : u \in Tuples} :
       \E cs \in SeqsUpTo(Tuples, MaxVal) :
          /\ t = Nil => cs = <<>>
          /\ L = tree_shrink(t, cs)
          /\ fresh = IF t = Nil THEN 0 ELSE 1 + Len(cs)
          /\ built = <<Shrank(t, cs)>>
    /\ used = 0
    /\ last = <<>>
    /\ InitDriverIdle
    /\ static_config = config
    /\ bcall = <<>>

Init == InitLazy \/ InitQc \/ InitOc \/ InitQs \/ InitBuilder \/ InitTree

Next ==
    \/ LzPush
    \/ LzPushThunk
    \/ LzPushMap
    \/ LzNext
    \/ QcTrial
    \/ QcProp
    \/ QcPassed
    \/ QcFail
    \/ QsEnter
    \/ QsStep
    \/ QsReturn
    \/ OcTrial
    \/ OcProp
    \/ OcExhausted
    \/ OcIf
    \/ CfCall

Spec == Init /\ [][Next]_vars

\* quick_check and quick_shrink alone, run to their end: the program is one
\* thread that executes its next statement as long as there is one.  Of the
\* configuration only trials decides how long a run is, so the other fields
\* keep their defaults.
RunInit ==
    /\ InitQc \/ InitQs
    /\ cfg \in {trials(config, t) : t \in 0..MaxTrials}

RunNext ==
    \/ QcTrial
    \/ QcProp
    \/ QcPassed
    \/ QcFail
    \/ QsEnter
    \/ QsStep
    \/ QsReturn

RunSpec == RunInit /\ [][RunNext]_vars /\ WF_vars(RunNext)

(***************************************************************************)
(* Properties of the drivers.                                              *)
(***************************************************************************)

Finished == pc \in {"passed", "failed"}
Hit == \E k \in DOMAIN evals : evals[k]
Miss == \E k \in DOMAIN evals : ~evals[k]

\* The calls of prop up to and including the first one that returned b.
UpToFirst(b) ==
    CHOOSE k \in 0..Len(evals) :
        /\ \A j \in 1..k : j < k => evals[j] # b
        /\ IF k = 0 THEN \A j \in DOMAIN evals : evals[j] # b
           ELSE k \in DOMAIN evals /\ evals[k] = b

\* Is the shrink sequence of v settled by the calls of shrink() made so far?
Shrunk(v) == IsVec(v) \/ v.n \in DOMAIN shrinkTab

\* The shrink sequence of v, from the candidate lists seen so far.
ShrinkSeq(v) ==
    IF IsVec(v) THEN vec_candidates(v.v)
    ELSE [p \in DOMAIN shrinkTab[v.n] |-> SmallN(shrinkTab[v.n][p])]

Passes(c) == c \in DOMAIN prop /\ prop[c]
Falsifies(c) == c \in DOMAIN prop /\ ~prop[c]

\* C1: quick_check_occurs succeeds whenever the property returned true on some
\* trial, the last one included, and raises the fatal failure only if the
\* property returned false on all cfg.trials trials.
C1_OccursSucceedsOnWitness ==
    (mode = "quick_check_occurs" /\ Finished) =>
        /\ Hit => pc = "passed"
        /\ pc = "failed" => (Len(evals) = cfg.trials /\ ~Hit)

\* C2: in quick_check, once the property has returned false, at trial index
\* i, no later trial generates a value: quick_shrink runs on the copy of the
\* value of that trial, and fail!() reports 1+i trials and the value
\* quick_shrink returned; the test does not pass.
C2_FalsificationEndsTrials ==
    mode = "quick_check" =>
        /\ Miss =>
              /\ UpToFirst(FALSE) = 1 + i
              /\ gens = 1 + i
              /\ value = <<>>
              /\ pc \in {"qs_enter", "qs_for", "qs_return", "qs_done", "failed"}
              /\ tested # <<>>
              /\ stack # <<>> => stack[1].value = tested[1]
              /\ (stack = <<>> /\ pc = "qs_enter") => arg = tested
              /\ pc \in {"qs_done", "failed"} => result # <<>>
              /\ pc = "failed" =>
                    /\ Len(failure) = 1
                    /\ failure[1].msg = "falsified"
                    /\ failure[1].trials = 1 + i
                    /\ failure[1].value = result[1]
        /\ ~Miss => pc \in {"qc_for", "qc_prop", "passed"}

C2_Witness ==
    /\ mode = "quick_check"
    /\ pc = "failed"
    /\ failure[1].trials = 2
    /\ failure[1].value # tested[1]

\* C3: while the property has returned true on every value, quick_check calls
\* it once per trial and never shrinks or fails; it passes after exactly
\* cfg.trials calls.
C3_AllTrueRunsEveryTrial ==
    (mode = "quick_check" /\ ~Miss) =>
        /\ Len(evals) = i
        /\ i <= cfg.trials
        /\ gens = IF pc = "qc_prop" THEN i + 1 ELSE i
        /\ pc \in {"qc_for", "qc_prop", "passed"}
        /\ stack = <<>>
        /\ result = <<>>
        /\ failure = <<>>
        /\ pc = "passed" => Len(evals) = cfg.trials

C3_Witness ==
    /\ mode = "quick_check"
    /\ pc = "passed"
    /\ cfg.trials = 3
    /\ Len(evals) = 3

\* C4: quick_check with trials = 0 generates nothing, never calls the
\* property, never shrinks and never fails: it passes.
C4_ZeroTrialsPasses ==
    (mode = "quick_check" /\ cfg.trials = 0) =>
        /\ gens = 0
        /\ evals = <<>>
        /\ stack = <<>>
        /\ failure = <<>>
        /\ pc \in {"qc_for", "passed"}

C4_Witness ==
    /\ mode = "quick_check"
    /\ cfg.trials = 0
    /\ pc = "passed"

\* C5 as stated: quick_check_occurs with trials = 0 calls the property zero
\* times and reports success.
C5_ZeroTrialsOccursSucceeds ==
    (mode = "quick_check_occurs" /\ cfg.trials = 0 /\ Finished) =>
        /\ evals = <<>>
        /\ pc = "passed"
        /\ failure = <<>>

\* C5 as amended: quick_check_occurs with trials = 0 generates nothing and
\* calls the property zero times, and then raises the fatal failure "could
\* not to reproduce".
C5_ZeroTrialsOccursFails ==
    (mode = "quick_check_occurs" /\ cfg.trials = 0) =>
        /\ gens = 0
        /\ evals = <<>>
        /\ pc \in {"oc_for", "oc_if", "failed"}
        /\ pc = "failed" =>
              (Len(failure) = 1 /\ failure[1].msg = "could not to reproduce")

C5_Witness ==
    /\ mode = "quick_check_occurs"
    /\ cfg.trials = 0
    /\ pc = "failed"

\* C6: quick_check_occurs stops at the first witness: if the property first
\* returns true on trial number k, that call is its last one, so it is called
\* exactly k <= trials times; if it returns false on every trial it is called
\* exactly cfg.trials times and then the failure "could not to reproduce" is
\* raised.
C6_OccursStopsAtFirstWitness ==
    mode = "quick_check_occurs" =>
        /\ Len(evals) <= cfg.trials
        /\ Hit =>
              /\ UpToFirst(TRUE) = Len(evals)
              /\ Len(evals) = 1 + i
              /\ pc \in {"oc_if", "passed", "failed"}
        /\ (~Hit /\ Finished) =>
              /\ Len(evals) = cfg.trials
              /\ pc = "failed"
              /\ Len(failure) = 1
              /\ failure[1].msg = "could not to reproduce"

C6_Witness ==
    /\ mode = "quick_check_occurs"
    /\ pc = "passed"
    /\ cfg.trials = 3
    /\ Len(evals) = 2

(***************************************************************************)
(* Properties of the Lazy, read off its history.                           *)
(***************************************************************************)

\* The x of the events of kind e in the history of l, oldest first.
Of(l, e) ==
    LET evs == SelectSeq(l.log, LAMBDA ev : ev.e = e)
    IN  [j \in DOMAIN evs |-> evs[j].x]

Is(l, p, e) == p \in DOMAIN l.log /\ l.log[p].e = e

\* Where in the history of l the event e of thunk t is; behind its end if
\* it has not happened.
At(l, e, t) ==
    LET P == {p \in DOMAIN l.log : l.log[p].e = e /\ l.log[p].x = t}
    IN  IF P = {} THEN Len(l.log) + 1 ELSE CHOOSE p \in P : TRUE

\* The order in which next() hands the elements out: those handed out so far
\* and then those waiting in head.
Stream(l) == Of(l, "ret") \o l.head

\* C7: next() hands out the realized elements in push order, and the thunks
\* are invoked in the order they were queued.  The history lists the events
\* in the order they happened.  So the first conjunct puts an element pushed
\* while a thunk was queued before every element that thunk pushes when it is
\* invoked, and the other two put a thunk queued during an invocation behind
\* all thunks that were pending then.
C7_LazyOrder ==
    mode = "lazy" =>
        /\ Stream(L) = Of(L, "push")
        /\ Of(L, "inst") = [j \in 1..Installed(L) |-> j]
        /\ Of(L, "call") \o [j \in DOMAIN L.thunks |-> L.thunks[j].id]
               = Of(L, "inst")

\* A thunk queued a thunk while another one was pending, an element was pushed
\* from outside while a thunk was queued, that thunk pushed an element, and
\* everything has been consumed.
C7_Witness ==
    /\ mode = "lazy"
    /\ L.head = <<>>
    /\ L.thunks = <<>>
    /\ \E u, t \in 1..Installed(L) : \E p \in DOMAIN L.log :
          /\ Is(L, p, "inst")
          /\ At(L, "call", u) < p /\ p < At(L, "end", u)
          /\ At(L, "inst", t) < p /\ p < At(L, "call", t)
    /\ \E t \in 1..Installed(L) : \E p, r \in DOMAIN L.log :
          /\ Is(L, p, "push") /\ Is(L, r, "push")
          /\ At(L, "inst", t) < p /\ p < At(L, "call", t)
          /\ At(L, "call", t) < r /\ r < At(L, "end", t)
          /\ \A u \in 1..Installed(L) : ~(At(L, "call", u) < p /\ p < At(L, "end", u))

\* The j-th element of the iterator of the push_map call b, and the answers
\* next() is to give on a Lazy built by b alone.
SourceElem(b, j) == IF b.g = "" THEN Atom(j) ELSE apply(b.g, Atom(j))
Mapped(b, j) == IF j <= b.k THEN <<apply(b.f, SourceElem(b, j))>> ELSE <<>>

\* C8: on an empty Lazy on which push_map(source, f) was called, source giving
\* x1..xn, the calls of next() return f(x1), ..., f(xn) in this order and
\* then None.
C8_PushMapYieldsMapped ==
    (mode = "lazy" /\ Len(built) = 1 /\ built[1].what = "push_map") =>
        \A j \in DOMAIN last : last[j] = Mapped(built[1], j)

\* test_lazy_list: three elements mapped by |x| (x, 1), and then None
C8_Witness ==
    /\ mode = "lazy"
    /\ built = <<Built("push_map", 3, "", "pair1")>>
    /\ last = <<<<apply("pair1", Atom(1))>>, <<apply("pair1", Atom(2))>>,
                <<apply("pair1", Atom(3))>>, <<>>>>

\* C9: the value quick_shrink returns is locally minimal: the property
\* returned true on every candidate of its shrink sequence; and a value none
\* of whose candidates falsifies the property is returned unchanged.
C9_LocallyMinimal ==
    (mode \in {"quick_check", "quick_shrink"} /\ result # <<>>) =>
        /\ Shrunk(result[1])
        /\ \A p \in DOMAIN ShrinkSeq(result[1]) : Passes(ShrinkSeq(result[1])[p])
        /\ pc = "qs_return" =>
              LET v == stack[1].value
              IN  (\A p \in DOMAIN ShrinkSeq(v) : ~Falsifies(ShrinkSeq(v)[p]))
                      => result[1] = v

C9_Witness ==
    /\ mode = "quick_shrink"
    /\ pc = "qs_return"
    /\ Len(stack) = 2
    /\ Len(ShrinkSeq(result[1])) = 1
    /\ Len(ShrinkSeq(stack[1].value)) = 2

RECURSIVE Greedy(_)
\* Where the leftmost-first descent from v ends: at v if none of its
\* candidates falsifies the property, else where the descent from the first
\* candidate that falsifies it ends.  None if that is not settled by the
\* calls of prop and shrink() made so far.
Greedy(v) ==
    IF ~Shrunk(v) THEN <<>>
    ELSE LET cs == ShrinkSeq(v)
             F == {p \in DOMAIN cs : ~Passes(cs[p])}
         IN  IF F = {} THEN <<v>>
             ELSE LET p == CHOOSE q \in F : \A r \in F : q <= r
                  IN  IF Falsifies(cs[p]) THEN Greedy(cs[p]) ELSE <<>>

\* C10: quick_shrink returns the end of the leftmost-first greedy descent from
\* its argument; at every level it takes the candidates in the order of the
\* shrink sequence and descends into the first one that falsifies the
\* property, examining none after it.
C10_LeftmostGreedy ==
    mode \in {"quick_check", "quick_shrink"} =>
        /\ (pc = "qs_return") => (result # <<>> /\ result = Greedy(stack[1].value))
        /\ (mode = "quick_check" /\ pc \in {"qs_done", "failed"}) =>
              (result # <<>> /\ result = Greedy(tested[1]))
        /\ \A d \in DOMAIN stack :
              LET fr == stack[d]
                  cs == ShrinkSeq(fr.value)
                  m == Len(fr.seen)
              IN  /\ m <= Len(cs)
                  /\ fr.seen = SubSeq(cs, 1, m)
                  /\ \A p \in 1..(m - 1) : Passes(fr.seen[p])
                  /\ d < Len(stack) =>
                        (m > 0 /\ Falsifies(fr.seen[m]) /\ stack[d + 1].value = fr.seen[m])
                  /\ (d = Len(stack) /\ pc = "qs_enter") =>
                        (m > 0 /\ Falsifies(fr.seen[m]) /\ arg = <<fr.seen[m]>>)
                  /\ (d = Len(stack) /\ pc = "qs_for") =>
                        (m > 0 => Passes(fr.seen[m]))

\* The result is not the smallest value the property may fail on: a smaller
\* candidate, behind the one descended into, was never given to the property.
C10_Witness ==
    /\ mode = "quick_shrink"
    /\ pc = "qs_done"
    /\ result # <<>>
    /\ \E x \in DOMAIN shrinkTab : \E p \in DOMAIN shrinkTab[x] :
          /\ shrinkTab[x][p] < result[1].n
          /\ SmallN(shrinkTab[x][p]) \notin DOMAIN prop

\* The property has returned false on every value it was called with.
AlwaysFalse == \A v \in DOMAIN prop : ~prop[v]

\* The shrink policy for numbers approaches 0: as far as shrink() was called,
\* every number but 0 has a candidate.
ApproachesZero == \A x \in DOMAIN shrinkTab : x > 0 => shrinkTab[x] # <<>>

\* C11: against a property that returns false on every call, quick_shrink
\* returns a value whose shrink sequence is empty; from a SmallN, with a
\* policy whose candidates approach 0, it returns SmallN(0), and from a
\* vector it returns the empty vector.
C11_AlwaysFalseFullyReduced ==
    (mode \in {"quick_check", "quick_shrink"} /\ AlwaysFalse /\ result # <<>>) =>
        LET r == result[1]
        IN  /\ Shrunk(r)
            /\ ShrinkSeq(r) = <<>>
            /\ IsVec(r) => r = Vec(<<>>)
            /\ (~IsVec(r) /\ ApproachesZero) => r = SmallN(0)

\* quick_shrink(config, SmallN(2), |_| false) went down by 2, 1, 0
C11_Witness ==
    /\ mode = "quick_shrink"
    /\ pc = "qs_return"
    /\ AlwaysFalse
    /\ ApproachesZero
    /\ Len(stack) = 3
    /\ stack[1].value = SmallN(2)
    /\ result = <<SmallN(0)>>

\* C12: the shrink sequences being finite and every candidate smaller than
\* the value it is a candidate of (Candidates, vec_candidates), every call of
\* quick_shrink returns, whatever the value and the answers of the property,
\* and quick_check ends: it passes or it reports the failure.
C12_Terminates ==
    <>(IF mode = "quick_shrink" THEN pc = "qs_done" ELSE pc \in {"passed", "failed"})

\* quick_check ended after a descent of two steps, from SmallN(2) to SmallN(0)
C12_Witness ==
    /\ mode = "quick_check"
    /\ pc = "failed"
    /\ tested = <<SmallN(2)>>
    /\ failure[1].value = SmallN(0)
    /\ SmallN(1) \in DOMAIN prop
    /\ Hit

\* C13: a builder returns its receiver with the named field set to the
\* argument and the other three fields as they were, whatever chain of
\* builder calls made the receiver; the static config keeps its values
\* trials = 50, size = 8, verbose = false, grow = true.
C13_BuildersSetOneField ==
    mode = "config" =>
        /\ static_config = [trials |-> 50, size |-> 8, verbose |-> FALSE, grow |-> TRUE]
        /\ bcall # <<>> =>
              LET c == bcall[1]
              IN  /\ cfg[c.name] = c.x
                  /\ \A f \in Builders \ {c.name} : cfg[f] = c.self[f]

\* config.trials(3).grow(false).size(0): the receiver of size differs from the
\* static config in two fields, and the result in three
C13_Witness ==
    /\ mode = "config"
    /\ bcall # <<>>
    /\ bcall[1].name = "size"
    /\ bcall[1].self = [trials |-> 3, size |-> 8, verbose |-> FALSE, grow |-> FALSE]
    /\ cfg = [trials |-> 3, size |-> 0, verbose |-> FALSE, grow |-> FALSE]

\* C14: in quick_check and in quick_check_occurs the size given to
\* arbitrary() at trial index k (the latest trial is trial gens - 1) is
\* cfg.size if grow is false, and cfg.size + g with 8g <= k < 8(g+1), the
\* floor of k/8, if grow is true: cfg.size for the trials 0..7, one more for
\* the trials 8..15.
C14_SizeGrowsEveryEightTrials ==
    (mode \in {"quick_check", "quick_check_occurs"} /\ gens > 0) =>
        LET k == gens - 1
            g == sz - cfg.size
        IN  /\ ~cfg.grow => g = 0
            /\ cfg.grow => (g >= 0 /\ 8 * g <= k /\ k < 8 * (g + 1))
            /\ (cfg.grow /\ k <= 7) => sz = cfg.size
            /\ (cfg.grow /\ 8 <= k /\ k <= 15) => sz = cfg.size + 1

\* the ninth trial of quick_check_occurs, index 8, is given size 8 + 1
C14_Witness ==
    /\ mode = "quick_check_occurs"
    /\ pc = "oc_prop"
    /\ cfg.grow
    /\ cfg.size = 8
    /\ gens = 9
    /\ i = 8
    /\ sz = 9

\* No thunk of l was invoked twice, and no thunk that was invoked is pending.
OnceEach(l) ==
    LET c == Of(l, "call")
    IN  /\ \A p, q \in DOMAIN c : p # q => c[p] # c[q]
        /\ \A j \in DOMAIN l.thunks : \A p \in DOMAIN c : l.thunks[j].id # c[p]

\* The same of l and of the iterators its pending push_map thunks hold.
OnceEachOf(l) == OnceEach(l) /\ \A j \in DOMAIN l.thunks : OnceEach(l.thunks[j].it)

\* C15: no thunk of a Lazy is invoked more than once, and a thunk that was
\* invoked is not pending again (the continuation a push_map thunk installs
\* is a new thunk); this holds of the Lazy of the client and of the shrink
\* sequences quick_shrink consumes.
C15_ThunkInvokedOnce ==
    /\ OnceEachOf(L)
    /\ \A d \in DOMAIN stack : OnceEachOf(stack[d].shrinks)

\* a push_map over three elements, drained: the thunk and its three
\* continuations were invoked, four invocations of four thunks
C15_Witness ==
    /\ mode = "lazy"
    /\ Len(built) = 1
    /\ built[1].what = "push_map"
    /\ L.thunks = <<>>
    /\ L.head = <<>>
    /\ Of(L, "call") = <<1, 2, 3, 4>>

\* Number of events of kind e among the first p events of the history of l.
CountTo(l, e, p) == Cardinality({q \in 1..p : l.log[q].e = e})

Min(a, b) == IF a <= b THEN a ELSE b

\* C16: a thunk is invoked only at a moment when head is empty (as many
\* elements handed out as pushed); and on a Lazy built by one push_map over
\* n elements, after k calls of next() the thunks have pulled min(k, n+1)
\* times from the iterator, the pull that found it empty included, and the
\* function was applied min(k, n) times, each result pushed.
C16_PushMapIsLazy ==
    mode = "lazy" =>
        /\ \A p \in DOMAIN L.log :
              L.log[p].e = "call" => CountTo(L, "push", p) = CountTo(L, "ret", p)
        /\ (Len(built) = 1 /\ built[1].what = "push_map") =>
              LET k == Len(last)
                  m == built[1].k
              IN  /\ Len(Of(L, "pull")) = Min(k, m + 1)
                  /\ Len(Of(L, "call")) = Min(k, m + 1)
                  /\ Len(Of(L, "push")) = Min(k, m)
                  /\ Len(SelectSeq(Of(L, "pull"), LAMBDA o : o # <<>>)) = Min(k, m)

\* two of three elements consumed: two pulls, two applications, the third
\* element still in the iterator the pending thunk holds
C16_Witness ==
    /\ mode = "lazy"
    /\ built = <<Built("push_map", 3, "", "pair1")>>
    /\ Len(last) = 2
    /\ Len(Of(L, "pull")) = 2
    /\ Len(L.thunks) = 1
    /\ L.thunks[1].it.head = <<Atom(3)>>

Drained(l) == l.head = <<>> /\ l.thunks = <<>>

\* C17: whatever the client does with push, push_thunk, push_map and next,
\* no element is handed out twice (the elements pushed are pairwise
\* different); once head and thunks are empty, as many elements were handed
\* out as were ever pushed; and a call of next() in that state returns None
\* and leaves the Lazy as it is.
C17_EachValueOnceThenNone ==
    /\ [](mode = "lazy" =>
            LET r == Of(L, "ret")
            IN  /\ \A p, q \in DOMAIN r : p # q => r[p] # r[q]
                /\ Len(r) <= Len(Of(L, "push"))
                /\ Drained(L) => Len(r) = Len(Of(L, "push")))
    /\ [][(mode = "lazy" /\ Drained(L) /\ last' # last) =>
              (last' = Append(last, <<>>) /\ L' = L)]_vars

\* the client drained the Lazy and got None, pushed again, drained it again
\* and got None again
C17_Witness ==
    /\ mode = "lazy"
    /\ Drained(L)
    /\ Len(Of(L, "ret")) = 3
    /\ Len(Of(L, "call")) > 0
    /\ Len(last) = 5
    /\ last[2] = <<>>
    /\ last[5] = <<>>

\* The state of the driver quick_check: Running (at trial index i),
\* Shrinking, Reported or Passed.
Phase ==
    CASE pc \in {"qc_for", "qc_prop"} -> "Running"
      [] pc \in {"qs_enter", "qs_for", "qs_return", "qs_done"} -> "Shrinking"
      [] pc = "failed" -> "Reported"
      [] pc = "passed" -> "Passed"
      [] OTHER -> "none"

\* C18: quick_check starts Running at trial 0 and its steps are: Running(i)
\* stays (a value is generated) or becomes Running(i+1) (the property
\* returned true); Running becomes Shrinking when the property returned
\* false at that trial; Shrinking stays or becomes Reported; Running becomes
\* Passed when all cfg.trials calls returned true.  No step leaves Reported
\* or Passed.
C18_DriverStates ==
    /\ (mode = "quick_check" => (Phase = "Running" /\ i = 0))
    /\ [][mode = "quick_check" =>
            \/ /\ Phase = "Running" /\ Phase' = "Running"
               /\ \/ i' = i /\ evals' = evals /\ pc = "qc_for"
                  \/ i' = i + 1 /\ evals' = Append(evals, TRUE) /\ pc = "qc_prop"
            \/ /\ Phase = "Running" /\ Phase' = "Shrinking"
               /\ pc = "qc_prop" /\ evals' = Append(evals, FALSE) /\ i' = i
            \/ /\ Phase = "Shrinking" /\ Phase' \in {"Shrinking", "Reported"}
               /\ i' = i
               /\ Phase' = "Reported" => (failure' # <<>> /\ result # <<>>)
            \/ /\ Phase = "Running" /\ Phase' = "Passed"
               /\ i = cfg.trials /\ Len(evals) = cfg.trials /\ ~Miss
               /\ failure' = <<>>]_vars

\* Running(0), Running(1), Running(2), Shrinking, Reported
C18_Witness ==
    /\ mode = "quick_check"
    /\ Phase = "Reported"
    /\ i = 2
    /\ evals[1] /\ evals[2] /\ ~evals[3]

\* The candidates of t, cs being the shrink sequence of the tuple of t.
TreeCandidates(t, cs) ==
    IF t = Nil THEN <<>>
    ELSE <<Nil>> \o [j \in DOMAIN cs |-> Node(cs[j][1], cs[j][2], cs[j][3])]

\* C19: the Lazy Shrink for UserTree returns hands out nothing for Nil; for
\* Node(x, l, r) it hands out Nil first and then Node(a, b, c) for each
\* (a, b, c) of the shrink sequence of the tuple (x, l, r), in its order, and
\* then None.  The tuples are taken one at a time: the first next() takes
\* none, and each later one takes one tuple of that sequence.
C19_TreeShrinkSequence ==
    mode = "tree" =>
        LET t == built[1].tree
            cs == built[1].cands
            exp == TreeCandidates(t, cs)
            k == Len(last)
        IN  /\ \A j \in DOMAIN last :
                  last[j] = IF j <= Len(exp) THEN <<exp[j]>> ELSE <<>>
            /\ t = Nil => (L.thunks = <<>> /\ L.log = <<>>)
            /\ t # Nil => Len(Of(L, "pull")) = (IF k = 0 THEN 0 ELSE Min(k - 1, Len(cs) + 1))
            /\ (t # Nil /\ k = 0) => (L.head = <<Nil>> /\ Len(L.thunks) = 1)

\* the candidates of a Node whose tuple has two candidates: Nil, two Nodes,
\* then None
C19_Witness ==
    /\ mode = "tree"
    /\ built[1].tree = Node(1, Node(0, Nil, Nil), Nil)
    /\ built[1].cands = <<<<0, Node(0, Nil, Nil), Nil>>, <<1, Nil, Nil>>>>
    /\ last = <<<<Nil>>, <<Node(0, Node(0, Nil, Nil), Nil)>>, <<Node(1, Nil, Nil)>>, <<>>>>

\* The elements the push_map call b is to bring, in the order of its
\* iterator, which holds Atom(m+1) to Atom(m+b.k).
MappedFrom(b, m) ==
    [j \in 1..b.k |->
        apply(b.f, IF b.g = "" THEN Atom(m + j) ELSE apply(b.g, Atom(m + j)))]

RECURSIVE Interleave(_, _)
\* a and b taken in turns, a first; once one is used up, the rest of the other
Interleave(a, b) ==
    IF a = <<>> THEN b ELSE <<Head(a)>> \o Interleave(b, Tail(a))

\* C20: on an empty Lazy on which push_map(A, f) and then push_map(B, g) were
\* called, the calls of next() return f(a1), g(b1), f(a2), g(b2), ...: the
\* two sources take turns, each in its own order, and once one of them is
\* used up the rest of the other follows, and then None.
C20_PushMapsInterleave ==
    (/\ mode = "lazy" /\ Len(built) = 2
     /\ built[1].what = "push_map" /\ built[2].what = "push_map") =>
        LET exp == Interleave(MappedFrom(built[1], 0),
                              MappedFrom(built[2], built[1].k))
        IN  \A j \in DOMAIN last :
               last[j] = IF j <= Len(exp) THEN <<exp[j]>> ELSE <<>>

\* a1, a2 mapped by |x| (x, 1) and b1 by |x| (x, 2): f(a1), g(b1), f(a2), None
C20_Witness ==
    /\ mode = "lazy"
    /\ built = <<Built("push_map", 2, "", "pair1"), Built("push_map", 1, "", "pair2")>>
    /\ last = <<<<apply("pair1", Atom(1))>>, <<apply("pair2", Atom(3))>>,
                <<apply("pair1", Atom(2))>>, <<>>>>

====
